---- MODULE Spec2Model ----
(***************************************************************************)
(* Embedding enrichment pipeline of rag-properties: the TypeScript worker  *)
(* (generate-embeddings script) and its Go port (script-golang-version).   *)
(* Every worker scans the whole source collection, keeps the records whose *)
(* scan index it owns, skips those already in the target collection,       *)
(* embeds the rest with retry/backoff and writes them in batches.          *)
(***************************************************************************)
EXTENDS Integers, Sequences, FiniteSets, Bags, TLC

\* ------------------------------------------------------------- bounds
MaxWorkers == 2
MaxRecords == 2
MaxCalls == 2
MaxQueries == 2
MaxOps == 4

\* -------------------------------------------------- program constants
BATCH_SIZE == 50
maxRetries == 5
initialBackoff == 1000
VECTOR_SIZE == 768

VARIABLES
    lang,                 \* "ts" | "go": which of the two programs runs
    totalWorkers,         \* TOTAL_WORKERS / workers
    source,               \* the source collection, in scan order
    target,               \* the target collection: a bag of stored documents
    target0,              \* the target collection when the run started
    stubVec,              \* the vector the embedding provider answers with
    faults,               \* the kinds of fault the collaborators may show
    pc,                   \* per worker: where processProperties stands
    currentIndex,         \* per worker: currentIndex
    propertiesProcessed,  \* per worker: propertiesProcessed
    batchDocuments,       \* per worker: batchDocuments
    property,             \* per worker: the record being processed
    retries,              \* per worker: retries of generateEmbeddingWithRetry
    delay,                \* per worker: the backoff being slept, in ms
    embedding,            \* per worker: what generateEmbeddingWithRetry returned
    cursorErr,            \* per worker (Go): cursor.Err() is set
    result,               \* per worker: what the worker reported
    events,               \* per worker: provider calls and waits of the current embed
    embedded,             \* per worker: ids the provider was called for
    presentAtLookup,      \* per worker: ids that were in the target when looked up
    reportedAbsent,       \* per worker: ids the lookup answered "not found" for
    handed,               \* per worker: ids pushed to batchDocuments, in order
    exhausted,            \* per worker: ids whose embedding returned failure
    insertLog,            \* per worker: the insertMany calls made, in order
    claimed,              \* per scan index: the workers that passed the ownership test
    occurred,             \* the kinds of fault that have happened
    cpc,                  \* where the coordinator (primaryProcess / main) stands
    forked,               \* the assignments of the workers started, in order
    results,              \* worker results sent and not yet received (IPC / chan)
    wg,                   \* (Go) the WaitGroup counter
    closed,               \* (Go) the results channel is closed
    completedWorkers,     \* coordinator: completedWorkers
    totalProcessed,       \* coordinator: totalProcessed
    announced,            \* the totals logged with "All workers completed"
    received,             \* worker ids of the results the coordinator handled, in order
    exitCode,             \* exit code of the coordinator process, "none" while it runs
    descRecord,           \* the property createPropertyDescription is applied to
    description,          \* the calls of createPropertyDescription: caller, scan index, text returned
    mpc,                  \* assistant: where main stands
    chatHistory,          \* assistant: main's chatHistory array
    query,                \* assistant: the line read by askQuestion
    node,                 \* graph: the node to run next, "none" outside a run
    state,                \* graph: the RagState channels
    visited,              \* graph: the nodes run so far in this invocation, in order
    passed,               \* the chat histories main passed to runRagAgent, call by call
    client,               \* store service: the module's client variable
    made,                 \* store service: the MongoClient objects constructed so far
    live,                 \* store service: the clients constructed and not closed
    calls                 \* store service: the calls made, with what each one did

vars == <<lang, totalWorkers, source, target, target0, stubVec, faults, pc,
          currentIndex, propertiesProcessed, batchDocuments, property, retries,
          delay, embedding, cursorErr, result, events, embedded, presentAtLookup,
          reportedAbsent, handed, exhausted, insertLog, claimed, occurred,
          cpc, forked, results, wg, closed, completedWorkers, totalProcessed,
          announced, received, exitCode, descRecord, description,
          mpc, chatHistory, query, node, state, visited, passed,
          client, made, live, calls>>

ragVars == <<mpc, chatHistory, query, node, state, visited, passed>>
dbVars == <<client, made, live, calls>>

descVars == <<descRecord, description>>
coordVars == <<cpc, forked, results, wg, closed, completedWorkers, totalProcessed,
               announced, received, exitCode>>
envVars == <<lang, totalWorkers, source, target, target0, stubVec, faults>>
localVars == <<currentIndex, propertiesProcessed, batchDocuments, property, retries,
               delay, embedding, cursorErr, result, events, embedded, presentAtLookup,
               reportedAbsent, handed, exhausted, insertLog, claimed>>

Slots == 1..MaxWorkers
Workers == 1..totalWorkers
AllFaults == {"index", "scan", "decode", "lookup", "embed", "insert"}
SetupFaults == {"credential", "connect", "count"}

\* ---------------------------------------------------------- documents
\* A source document: its _id, one typed field that may hold its zero value
\* (isExclusive), one typed field that may hold a value of the wrong type
\* (area), and whether it carries attributes outside the Property type.
PlainDoc(i) == [_id |-> i, isExclusive |-> "true", area |-> "number", extra |-> "absent"]
OpenDoc(i) == [_id |-> i, isExclusive |-> "false", area |-> "number", extra |-> "present"]
BadDoc(i) == [_id |-> i, isExclusive |-> "true", area |-> "string", extra |-> "absent"]

\* The small source: documents of the three kinds in turn.
Doc(i) == CASE i % 3 = 1 -> OpenDoc(i)
            [] i % 3 = 2 -> BadDoc(i)
            [] OTHER -> PlainDoc(i)

NoDoc == [_id |-> 0, isExclusive |-> "absent", area |-> "absent", extra |-> "absent"]

\* cursor.Decode(&property): a value of the wrong type is an error, fields
\* outside the struct are dropped, an absent bool is false.
DecodeFails(doc) == doc.area = "string"
GoDecode(doc) == [_id |-> doc._id,
                  isExclusive |-> IF doc.isExclusive = "true" THEN "true" ELSE "false",
                  area |-> doc.area,
                  extra |-> "absent"]
\* Marshalling the struct for InsertMany: omitempty leaves zero values out.
GoMarshal(p) == [_id |-> p._id,
                 isExclusive |-> IF p.isExclusive = "true" THEN "true" ELSE "absent",
                 area |-> p.area,
                 extra |-> "absent"]

\* What the worker holds for a scanned document, and what it stores of it.
Held(l, doc) == IF l = "go" THEN GoDecode(doc) ELSE doc
Stored(l, p) == IF l = "go" THEN GoMarshal(p) ELSE p

\* embedding[i] = float32(val): an element-wise copy.
GoConvert(v) == [i \in 1..Len(v) |-> v[i]]
Embedding(l, v) == IF l = "go" THEN GoConvert(v) ELSE v

ProviderVectors == {<<1, 0, 0>>, <<0, 1>>}

\* ------------------------------------------------------- target store
RECURSIVE SeqToBag(_)
SeqToBag(s) == IF s = <<>> THEN EmptyBag
               ELSE SetToBag({Head(s)}) (+) SeqToBag(Tail(s))

\* insertMany(batch), all or nothing.
ReplaceWith(l, t, batch) ==
    SeqToBag([k \in 1..Len(batch) |->
                [metadata |-> Stored(l, batch[k].metadata),
                 embeddings |-> batch[k].embeddings]])
InsertMany(l, t, batch) ==
    t (+) SeqToBag([k \in 1..Len(batch) |->
                      [metadata |-> Stored(l, batch[k].metadata),
                       embeddings |-> batch[k].embeddings]])

\* findOne({"metadata._id": id})
FindOne(t, id) == \E e \in BagToSet(t) : e.metadata._id = id

CopiesOfId(t, id) ==
    LET es == {e \in BagToSet(t) : e.metadata._id = id}
        RECURSIVE Sum(_)
        Sum(S) == IF S = {} THEN 0
                  ELSE LET e == CHOOSE x \in S : TRUE
                       IN CopiesIn(e, t) + Sum(S \ {e})
    IN Sum(es)

Ids(batch) == [k \in 1..Len(batch) |-> batch[k].metadata._id]

\* ---------------------------------------------------------- partition
\* (currentIndex - 1) % totalWorkers !== (workerId - 1)  =>  continue
OwnsAll(index, workerId, n) == TRUE
OwnsNoOffset(index, workerId, n) == (index - 1) % n = workerId
Owns(index, workerId, n) == (index - 1) % n = workerId - 1

\* ------------------------------------------------------------ backoff
RandomSamples == {0, 500, 999}
\* initialBackoff * 2^(retries-1) * (0.5 + Math.random()), retries already
\* incremented; the random number is r/1000.
TsDelay(k, r) == (initialBackoff * (2 ^ (k - 1)) * (500 + r)) \div 1000
\* initialBackoff * 2^retries * (0.5 + 0.5*nanosecond/1e9), retries 0-based.
GoDelay(k, r) == (initialBackoff * (2 ^ k) * (500 + (r \div 2))) \div 1000

\* -------------------------------------------------------------- texts
\* A text is a sequence of characters; the fixed parts of a line ("Title",
\* "Rent", "m2") are written as one element each.
RECURSIVE TrimLeft(_)
TrimLeft(t) == IF t # <<>> /\ Head(t) \in {" ", "\n"} THEN TrimLeft(Tail(t)) ELSE t
RECURSIVE TrimRight(_)
TrimRight(t) == IF t # <<>> /\ t[Len(t)] \in {" ", "\n"}
                THEN TrimRight(SubSeq(t, 1, Len(t) - 1)) ELSE t
\* String.prototype.trim / strings.TrimSpace
Trim(t) == TrimLeft(TrimRight(t))
\* String.prototype.endsWith
EndsWith(t, suffix) ==
    Len(t) >= Len(suffix) /\ SubSeq(t, Len(t) - Len(suffix) + 1, Len(t)) = suffix
\* String.prototype.includes / strings.Contains
Includes(t, part) ==
    \E i \in 0..(Len(t) - Len(part)) : SubSeq(t, i + 1, i + Len(part)) = part
\* strings.ToLower / String.prototype.toLowerCase, on the capital letters the
\* inputs are written with
Lower(c) == CASE c = "R" -> "r" [] c = "E" -> "e" [] c = "N" -> "n" [] c = "T" -> "t"
              [] c = "S" -> "s" [] c = "A" -> "a" [] c = "L" -> "l" [] c = "X" -> "x"
              [] c = "I" -> "i" [] c = "Q" -> "q" [] c = "U" -> "u" [] OTHER -> c
ToLower(t) == [k \in 1..Len(t) |-> Lower(t[k])]
\* Array.prototype.join / strings.Join
RECURSIVE Join(_, _)
Join(ts, sep) == IF ts = <<>> THEN <<>>
                 ELSE IF Len(ts) = 1 THEN ts[1]
                 ELSE ts[1] \o sep \o Join(Tail(ts), sep)
\* `${n}` / %d of a natural number
DigitChar == <<"0", "1", "2", "3", "4", "5", "6", "7", "8", "9">>
RECURSIVE Digits(_)
Digits(n) == IF n < 10 THEN <<DigitChar[n + 1]>>
             ELSE Digits(n \div 10) \o <<DigitChar[(n % 10) + 1]>>
\* %.2f of a whole number
Fixed2(n) == Digits(n) \o <<".", "0", "0">>
Rent == <<"r", "e", "n", "t">>

\* ------------------------------------------- createPropertyDescription
\* TypeScript: every line is built, then
\* .filter(line => line.trim() !== "" && !line.endsWith(": "))
TsKept(line) == Trim(line) # <<>> /\ ~EndsWith(line, <<":", " ">>)
TsPrice(p) == IF Includes(p.transactionType, Rent)
              THEN <<"Rent", " ", "$">> \o Digits(p.rentPrice)
              ELSE <<"Sale", " ", "$">> \o Digits(p.askingPrice)
TsLines(p) ==
    SelectSeq(<< <<"Title", ":", " ">> \o p.title,
                 <<"Description", ":", " ">> \o p.adDescription,
                 <<"Location", ":", " ">> \o p.region \o <<",", " ">> \o p.city
                                           \o <<",", " ">> \o p.state,
                 <<"Property Type", ":", " ">> \o p.propertyType,
                 <<"Transaction Type", ":", " ">> \o p.transactionType,
                 <<"Area", ":", " ">> \o Digits(p.area) \o <<" ", "m2">>,
                 <<"Total Area", ":", " ">> \o Digits(p.totalArea) \o <<" ", "m2">>,
                 <<"Price", ":", " ">> \o TsPrice(p),
                 <<"Bedrooms", ":", " ">> \o Digits(p.bedrooms),
                 <<"Suites", ":", " ">> \o Digits(p.suites),
                 <<"Bathrooms", ":", " ">> \o Digits(p.bathrooms),
                 <<"Parking Spots", ":", " ">> \o Digits(p.parkingSpots),
                 <<"Building", ":", " ">> \o p.building,
                 <<"Exclusive", ":", " ">> \o (IF p.isExclusive THEN <<"Yes">> ELSE <<"No">>),
                 <<"Features", ":", " ">> \o Join(p.features, <<",", " ">>) >>,
              TsKept)

\* Go: a line is appended only when its test passes.
When(test, line) == IF test THEN <<line>> ELSE <<>>
GoLocation(p) == Trim(p.region \o <<",", " ">> \o p.city \o <<",", " ">> \o p.state)
GoIsRent(p) == p.transactionType # <<>> /\ Includes(ToLower(p.transactionType), Rent)
GoPrice(p) ==
    IF GoIsRent(p) /\ p.rentPrice > 0
    THEN << <<"Price", ":", " ", "Rent", " ", "$">> \o Fixed2(p.rentPrice) >>
    ELSE When(p.askingPrice > 0, <<"Price", ":", " ", "Sale", " ", "$">> \o Fixed2(p.askingPrice))
GoLines(p) ==
       When(p.title # <<>>, <<"Title", ":", " ">> \o p.title)
    \o When(p.adDescription # <<>>, <<"Description", ":", " ">> \o p.adDescription)
    \o When(GoLocation(p) # <<",", ",">>, <<"Location", ":", " ">> \o GoLocation(p))
    \o When(p.propertyType # <<>>, <<"Property Type", ":", " ">> \o p.propertyType)
    \o When(p.transactionType # <<>>, <<"Transaction Type", ":", " ">> \o p.transactionType)
    \o When(p.area > 0, <<"Area", ":", " ">> \o Fixed2(p.area) \o <<" ", "m2">>)
    \o When(p.totalArea > 0, <<"Total Area", ":", " ">> \o Fixed2(p.totalArea) \o <<" ", "m2">>)
    \o GoPrice(p)
    \o When(p.bedrooms > 0, <<"Bedrooms", ":", " ">> \o Digits(p.bedrooms))
    \o When(p.suites > 0, <<"Suites", ":", " ">> \o Digits(p.suites))
    \o When(p.bathrooms > 0, <<"Bathrooms", ":", " ">> \o Digits(p.bathrooms))
    \o When(p.parkingSpots > 0, <<"Parking Spots", ":", " ">> \o Digits(p.parkingSpots))
    \o When(p.building # <<>>, <<"Building", ":", " ">> \o p.building)
    \o << <<"Exclusive", ":", " ">> \o (IF p.isExclusive THEN <<"Yes">> ELSE <<"No">>) >>
    \o When(Join(p.features, <<",", " ">>) # <<>>,
            <<"Features", ":", " ">> \o Join(p.features, <<",", " ">>))

\* .join("\n") / strings.Join(lines, "\n")
createPropertyDescription(l, p) ==
    Join(IF l = "go" THEN GoLines(p) ELSE TsLines(p), <<"\n">>)

\* --------------------------------------------------------------- Init
TargetOf(l, v, docs, S) ==
    SetToBag({[metadata |-> Stored(l, Held(l, docs[i])), embeddings |-> Embedding(l, v)] : i \in S})

InitWorkers ==
    /\ pc = [w \in Slots |-> "idle"]
    /\ currentIndex = [w \in Slots |-> 0]
    /\ propertiesProcessed = [w \in Slots |-> 0]
    /\ batchDocuments = [w \in Slots |-> <<>>]
    /\ property = [w \in Slots |-> NoDoc]
    /\ retries = [w \in Slots |-> 0]
    /\ delay = [w \in Slots |-> 0]
    /\ embedding = [w \in Slots |-> [null |-> TRUE, values |-> <<>>]]
    /\ cursorErr = [w \in Slots |-> FALSE]
    /\ result = [w \in Slots |-> [status |-> "none", count |-> 0]]
    /\ events = [w \in Slots |-> <<>>]
    /\ embedded = [w \in Slots |-> {}]
    /\ presentAtLookup = [w \in Slots |-> {}]
    /\ reportedAbsent = [w \in Slots |-> {}]
    /\ handed = [w \in Slots |-> <<>>]
    /\ exhausted = [w \in Slots |-> {}]
    /\ insertLog = [w \in Slots |-> <<>>]
    /\ occurred = {}

\* A small mixed source, any number of workers, a target left by earlier runs,
\* collaborators that may fail in every way.
InitSmall ==
    /\ totalWorkers \in 1..MaxWorkers
    /\ \E m \in 0..MaxRecords :
         /\ source = [i \in 1..m |-> Doc(i)]
         /\ \E S \in SUBSET (1..m) : target0 = TargetOf(lang, stubVec, source, S)
    /\ faults = AllFaults

\* A source of just over one batch for a single worker, with a provider that
\* always answers.
InitLarge ==
    /\ totalWorkers = 1
    /\ \E m \in (BATCH_SIZE + 1)..(BATCH_SIZE + 2) :
         /\ source = [i \in 1..m |-> PlainDoc(i)]
         /\ \E S \in {{}, {1}} : target0 = TargetOf(lang, stubVec, source, S)
    /\ faults = {"index", "scan", "insert"}

\* WORKER_ID: i.toString(), TOTAL_WORKERS: maxWorkers.toString()
\* / processProperties(ctx, workerID, workers, ...) with workerID = i
AssignmentSame(i, n) == [workerId |-> 1, totalWorkers |-> n]
Assignment(i, n) == [workerId |-> i, totalWorkers |-> n]

\* The coordinator before its first step.
InitCoordinator ==
    /\ cpc = "setup"
    /\ forked = <<>>
    /\ results = <<>>
    /\ wg = 0
    /\ closed = FALSE
    /\ completedWorkers = 0
    /\ totalProcessed = 0
    /\ announced = <<>>
    /\ received = <<>>
    /\ exitCode = "none"

\* The coordinator once its start loop has ended: every worker started, no
\* result received yet.
\* A field of the RagState that is undefined, or holds a value.
Undefined == [defined |-> FALSE]
Def(v) == [defined |-> TRUE, value |-> v]

\* The assistant is not running.
NoSession ==
    /\ mpc = "off"
    /\ chatHistory = <<>>
    /\ query = <<>>
    /\ node = "none"
    /\ state = Undefined
    /\ visited = <<>>
    /\ passed = <<>>

\* let client: MongoClient | null = null, and no call made yet.
NoService ==
    /\ client = Undefined
    /\ made = 0
    /\ live = {}
    /\ calls = <<>>

\* createPropertyDescription not watched: no record, no text.
NoDescription ==
    /\ descRecord = <<>>
    /\ description = <<>>

AfterFanOut ==
    /\ cpc = "wait"
    /\ forked = [i \in 1..totalWorkers |-> Assignment(i, totalWorkers)]
    /\ results = <<>>
    /\ wg = IF lang = "go" THEN totalWorkers ELSE 0
    /\ closed = FALSE
    /\ completedWorkers = 0
    /\ totalProcessed = 0
    /\ announced = <<>>
    /\ received = <<>>
    /\ exitCode = "none"

\* The workers of one run, from the moment they are all started.
Init ==
    /\ lang \in {"ts", "go"}
    /\ stubVec \in ProviderVectors
    /\ (InitSmall \/ InitLarge)
    /\ claimed = [i \in 1..Len(source) |-> {}]
    /\ target = target0
    /\ InitWorkers
    /\ AfterFanOut
    /\ NoDescription
    /\ NoSession
    /\ NoService

\* ------------------------------------------------------------ actions
ReportToAll(w, status, count) == [v \in Slots |-> [status |-> status, count |-> count]]
Report(w, status, count) == [result EXCEPT ![w] = [status |-> status, count |-> count]]

\* A worker runs from the moment the coordinator has forked it (cluster.fork)
\* / started its goroutine (go func), whatever the other workers are doing.
StartedInTurn(w) ==
    /\ \E k \in 1..Len(forked) : forked[k].workerId = w
    /\ \A u \in 1..(w - 1) : pc[u] = "exited"
Started(w) == \E k \in 1..Len(forked) : forked[k].workerId = w

\* processProperties up to the cursor: createIndex, then find().
Start(w) ==
    /\ w \in Workers
    /\ Started(w)
    /\ pc[w] = "idle"
    /\ \E outcome \in {"ok"} \cup ({"index"} \cap faults) :
         IF outcome = "ok"
         THEN /\ pc' = [pc EXCEPT ![w] = "scan"]
              /\ UNCHANGED <<result, occurred>>
         ELSE /\ pc' = [pc EXCEPT ![w] = "failed"]
              /\ result' = Report(w, "error", 0)
              /\ occurred' = occurred \cup {"index"}
    /\ UNCHANGED <<coordVars, descVars, ragVars, dbVars, lang, totalWorkers, source, target, target0, stubVec, faults,
                   currentIndex, propertiesProcessed, batchDocuments, property,
                   retries, delay, embedding, cursorErr, events, embedded,
                   presentAtLookup, reportedAbsent, handed, exhausted, insertLog,
                   claimed>>

\* One turn of the cursor loop up to the dedup lookup. The locals of the embed
\* call of the turn before (retries, and the record of its calls) are gone.
\* propertiesProcessed++, after the continue of the ownership test
ProcessedAlways(mine, n) == n + 1
Processed(mine, n) == IF mine THEN n + 1 ELSE n

Scan(w) ==
    /\ w \in Workers
    /\ pc[w] = "scan"
    /\ \E outcome \in (IF currentIndex[w] < Len(source) THEN {"next"} ELSE {"end"})
                        \cup ({"scan"} \cap faults) :
         CASE outcome = "next" ->
                LET i == currentIndex[w] + 1
                    doc == source[i]
                    mine == Owns(i, w, totalWorkers)
                    bad == lang = "go" /\ DecodeFails(doc)
                IN /\ currentIndex' = [currentIndex EXCEPT ![w] = i]
                   /\ claimed' = IF mine THEN [claimed EXCEPT ![i] = @ \cup {w}] ELSE claimed
                   /\ propertiesProcessed' =
                        [propertiesProcessed EXCEPT ![w] = Processed(mine, @)]
                   /\ property' = IF mine /\ ~bad THEN [property EXCEPT ![w] = Held(lang, doc)]
                                  ELSE property
                   /\ pc' = IF mine /\ ~bad THEN [pc EXCEPT ![w] = "lookup"] ELSE pc
                   /\ occurred' = IF mine /\ bad THEN occurred \cup {"decode"} ELSE occurred
                   /\ UNCHANGED <<cursorErr, result>>
           [] outcome = "end" ->
                /\ pc' = [pc EXCEPT ![w] = "flush"]
                /\ UNCHANGED <<currentIndex, claimed, propertiesProcessed, property,
                               occurred, cursorErr, result>>
           [] OTHER ->
                /\ occurred' = occurred \cup {"scan"}
                /\ IF lang = "go"
                   THEN /\ cursorErr' = [cursorErr EXCEPT ![w] = TRUE]
                        /\ pc' = [pc EXCEPT ![w] = "flush"]
                        /\ UNCHANGED result
                   ELSE /\ pc' = [pc EXCEPT ![w] = "failed"]
                        /\ result' = Report(w, "error", 0)
                        /\ UNCHANGED cursorErr
                /\ UNCHANGED <<currentIndex, claimed, propertiesProcessed, property>>
    /\ retries' = [retries EXCEPT ![w] = 0]
    /\ events' = [events EXCEPT ![w] = <<>>]
    /\ embedding' = [embedding EXCEPT ![w] = [null |-> TRUE, values |-> <<>>]]
    /\ UNCHANGED <<coordVars, descVars, ragVars, dbVars, lang, totalWorkers, source, target, target0, stubVec, faults,
                   batchDocuments, delay, embedded, presentAtLookup,
                   reportedAbsent, handed, exhausted, insertLog>>

\* The dedup check: findOne({"metadata._id": property._id}).
Lookup(w) ==
    /\ w \in Workers
    /\ pc[w] = "lookup"
    /\ LET id == property[w]._id
           found == FindOne(target, id)
       IN /\ presentAtLookup' = IF found THEN [presentAtLookup EXCEPT ![w] = @ \cup {id}]
                                ELSE presentAtLookup
          /\ \E outcome \in {"answer"} \cup ({"lookup"} \cap faults) :
               IF outcome = "answer"
               THEN /\ pc' = [pc EXCEPT ![w] = IF found THEN "scan" ELSE "embed"]
                    /\ reportedAbsent' = IF found THEN reportedAbsent
                                         ELSE [reportedAbsent EXCEPT ![w] = @ \cup {id}]
                    /\ UNCHANGED <<result, occurred>>
               ELSE /\ occurred' = occurred \cup {"lookup"}
                    /\ UNCHANGED reportedAbsent
                    /\ IF lang = "go"
                       THEN /\ pc' = [pc EXCEPT ![w] = "embed"]
                            /\ UNCHANGED result
                       ELSE /\ pc' = [pc EXCEPT ![w] = "failed"]
                            /\ result' = Report(w, "error", 0)
    /\ UNCHANGED <<coordVars, descVars, ragVars, dbVars, lang, totalWorkers, source, target, target0, stubVec, faults,
                   currentIndex, propertiesProcessed, batchDocuments, property, retries,
                   delay, embedding, events, cursorErr, embedded, handed, exhausted, insertLog,
                   claimed>>

\* if (retries >= maxRetries) return null   /   if retries == maxRetries-1 { return nil, err }
\* k is retries when the call failed.
GivesUpLate(l, k) == IF l = "go" THEN k = maxRetries ELSE k + 1 > maxRetries
GivesUp(l, k) == IF l = "go" THEN k = maxRetries - 1 ELSE k + 1 >= maxRetries

\* What generateEmbeddingWithRetry returns: the provider's values, or null / (nil, err).
Null == [null |-> TRUE, values |-> <<>>]
ValuesOfNothing(l, v) == [null |-> FALSE, values |-> <<>>]
ValuesCut(l, v) == [null |-> FALSE, values |-> SubSeq(Embedding(l, v), 1, Len(v) - 1)]
Values(l, v) == [null |-> FALSE, values |-> Embedding(l, v)]

\* if (embedding) { ... push ... }   /   if err != nil { continue }; if embedding != nil { ... }
KeepsAll(l, emb) == TRUE
Keeps(l, emb) == ~emb.null

\* if (batchDocuments.length >= BATCH_SIZE)
BatchOver(n) == n > BATCH_SIZE
BatchFull(n) == n >= BATCH_SIZE

\* Where the worker stands after a record whose embedding was given up: the
\* else branch only warns (Go: continue), the loop goes on.
AfterSkipAborts(l) == "failed"
AfterSkip(l) == "scan"

\* The worker's steps after generateEmbeddingWithRetry returned emb, up to the
\* next suspension: the push to batchDocuments and the batch-size test.
AfterEmbed(w, emb) ==
    LET id == property[w]._id
        batch == Append(batchDocuments[w], [metadata |-> property[w], embeddings |-> emb.values])
    IN /\ embedding' = [embedding EXCEPT ![w] = emb]
       /\ exhausted' = IF emb.null THEN [exhausted EXCEPT ![w] = @ \cup {id}] ELSE exhausted
       /\ IF Keeps(lang, emb)
          THEN /\ batchDocuments' = [batchDocuments EXCEPT ![w] = batch]
               /\ handed' = [handed EXCEPT ![w] = Append(@, id)]
               /\ pc' = [pc EXCEPT ![w] = IF BatchFull(Len(batch)) THEN "insert" ELSE "scan"]
          ELSE /\ pc' = [pc EXCEPT ![w] = AfterSkip(lang)]
               /\ UNCHANGED <<batchDocuments, handed>>

\* One provider call of generateEmbeddingWithRetry; when the call makes the
\* function return, the worker's steps that follow without a suspension.
EmbedAttempt(w) ==
    /\ w \in Workers
    /\ pc[w] = "embed"
    /\ retries[w] < maxRetries
    /\ embedded' = [embedded EXCEPT ![w] = @ \cup {property[w]._id}]
    /\ \E outcome \in {"ok"} \cup ({"embed"} \cap faults) :
         IF outcome = "ok"
         THEN /\ events' = [events EXCEPT ![w] = Append(@, "ok")]
              /\ AfterEmbed(w, Values(lang, stubVec))
              /\ UNCHANGED <<retries, delay, occurred>>
         ELSE /\ events' = [events EXCEPT ![w] = Append(@, "fail")]
              /\ occurred' = occurred \cup {"embed"}
              /\ retries' = IF lang = "go" THEN retries ELSE [retries EXCEPT ![w] = @ + 1]
              /\ IF GivesUp(lang, retries[w])
                 THEN /\ AfterEmbed(w, Null)
                      /\ UNCHANGED delay
                 ELSE /\ pc' = [pc EXCEPT ![w] = "backoff"]
                      /\ UNCHANGED <<embedding, exhausted, batchDocuments, handed>>
                      /\ \E r \in RandomSamples :
                           delay' = [delay EXCEPT ![w] =
                                       IF lang = "go" THEN GoDelay(retries[w], r)
                                       ELSE TsDelay(retries[w] + 1, r)]
    /\ UNCHANGED <<coordVars, descVars, ragVars, dbVars, lang, totalWorkers, source, target, target0, stubVec, faults,
                   currentIndex, propertiesProcessed, property, cursorErr, result,
                   presentAtLookup, reportedAbsent, insertLog, claimed>>

\* setTimeout(resolve, delay) / time.Sleep(backoff), then the loop's test
\* (Go: after retries++); a loop that ends returns null / (nil, err).
Backoff(w) ==
    /\ w \in Workers
    /\ pc[w] = "backoff"
    /\ events' = [events EXCEPT ![w] = Append(@, "wait")]
    /\ retries' = IF lang = "go" THEN [retries EXCEPT ![w] = @ + 1] ELSE retries
    /\ delay' = [delay EXCEPT ![w] = 0]
    /\ IF retries'[w] < maxRetries
       THEN /\ pc' = [pc EXCEPT ![w] = "embed"]
            /\ UNCHANGED <<embedding, exhausted, batchDocuments, handed>>
       ELSE AfterEmbed(w, Null)
    /\ UNCHANGED <<coordVars, descVars, ragVars, dbVars, lang, totalWorkers, source, target, target0, stubVec, faults,
                   currentIndex, propertiesProcessed, property,
                   cursorErr, result, embedded, presentAtLookup, reportedAbsent,
                   insertLog, claimed, occurred>>

\* What a failed insertMany of a full batch leaves in batchDocuments:
\* TypeScript clears it inside the try, Go clears it after the if.
AfterFailedInsert(l, batch) == IF l = "go" THEN <<>> ELSE batch

\* insertMany of a full batch inside the loop.
InsertBatch(w) ==
    /\ w \in Workers
    /\ pc[w] = "insert"
    /\ \E outcome \in {"ok"} \cup ({"insert"} \cap faults) :
         /\ insertLog' = [insertLog EXCEPT ![w] =
                            Append(@, [ids |-> Ids(batchDocuments[w]), ok |-> outcome = "ok"])]
         /\ IF outcome = "ok"
            THEN /\ target' = InsertMany(lang, target, batchDocuments[w])
                 /\ batchDocuments' = [batchDocuments EXCEPT ![w] = <<>>]
                 /\ UNCHANGED occurred
            ELSE /\ batchDocuments' = [batchDocuments EXCEPT ![w] = AfterFailedInsert(lang, @)]
                 /\ occurred' = occurred \cup {"insert"}
                 /\ UNCHANGED target
    /\ pc' = [pc EXCEPT ![w] = "scan"]
    /\ UNCHANGED <<coordVars, descVars, ragVars, dbVars, lang, totalWorkers, source, target0, stubVec, faults, currentIndex,
                   propertiesProcessed, property, retries, delay, embedding, cursorErr,
                   result, events, embedded, presentAtLookup, reportedAbsent, handed,
                   exhausted, claimed>>

\* if (batchDocuments.length > 0)   /   if len(batchDocuments) > 0
RemainsFull(batch) == Len(batch) >= BATCH_SIZE
Remains(batch) == Len(batch) > 0

\* After the loop: insert what remains, then return (Go: after cursor.Err()).
FinalFlush(w) ==
    /\ w \in Workers
    /\ pc[w] = "flush"
    /\ IF Remains(batchDocuments[w])
       THEN \E outcome \in {"ok"} \cup ({"insert"} \cap faults) :
              /\ insertLog' = [insertLog EXCEPT ![w] =
                                 Append(@, [ids |-> Ids(batchDocuments[w]), ok |-> outcome = "ok"])]
              /\ IF outcome = "ok"
                 THEN /\ target' = InsertMany(lang, target, batchDocuments[w])
                      /\ UNCHANGED occurred
                 ELSE /\ occurred' = occurred \cup {"insert"}
                      /\ UNCHANGED target
       ELSE UNCHANGED <<insertLog, target, occurred>>
    /\ IF cursorErr[w]
       THEN /\ pc' = [pc EXCEPT ![w] = "failed"]
            /\ result' = Report(w, "error", propertiesProcessed[w])
       ELSE /\ pc' = [pc EXCEPT ![w] = "done"]
            /\ result' = Report(w, "ok", propertiesProcessed[w])
    /\ UNCHANGED <<coordVars, descVars, ragVars, dbVars, lang, totalWorkers, source, target0, stubVec, faults, currentIndex,
                   propertiesProcessed, batchDocuments, property, retries, delay,
                   embedding, cursorErr, events, embedded, presentAtLookup, reportedAbsent,
                   handed, exhausted, claimed>>

Next ==
    \E w \in Slots :
        \/ Start(w)
        \/ Scan(w)
        \/ Lookup(w)
        \/ EmbedAttempt(w)
        \/ Backoff(w)
        \/ InsertBatch(w)
        \/ FinalFlush(w)

Spec == Init /\ [][Next]_vars

\* ----------------------------------------------- worker end of life
\* process.send({type, workerId, propertiesProcessed})   /   results <- WorkerResult{...}
Message(w) == [workerId |-> w, status |-> result[w].status, count |-> result[w].count]

\* results := make(chan WorkerResult, workers): a send waits only while the
\* channel holds as many results as it has room for.
HasRoomForOneLess(ch, n) == Len(ch) < n - 1
HasRoom(ch, n) == Len(ch) < n

\* workerProcess after processProperties returned or threw: the message to the
\* primary (then process.exit(1) on an error). Go: the send on the results
\* channel, which waits while the channel is full.
Send(w) ==
    /\ w \in Workers
    /\ pc[w] \in {"done", "failed"}
    /\ lang = "go" => HasRoom(results, totalWorkers)
    /\ results' = Append(results, Message(w))
    /\ pc' = [pc EXCEPT ![w] = IF lang = "go" THEN "sent" ELSE "exited"]
    /\ UNCHANGED <<envVars, localVars, descVars, ragVars, dbVars, occurred, cpc, forked, wg, closed,
                   completedWorkers, totalProcessed, announced, received, exitCode>>

\* (Go) defer wg.Done()
WgDone(w) ==
    /\ w \in Workers
    /\ lang = "go"
    /\ pc[w] = "sent"
    /\ wg' = wg - 1
    /\ pc' = [pc EXCEPT ![w] = "exited"]
    /\ UNCHANGED <<envVars, localVars, descVars, ragVars, dbVars, occurred, cpc, forked, results, closed,
                   completedWorkers, totalProcessed, announced, received, exitCode>>

\* -------------------------------------------------------- coordinator
\* if (!API_KEY) process.exit(1); catch (error) { ...; process.exit(1) }
\* / log.Fatal, log.Fatalf
FatalOnlyCredential(outcome) == outcome = "credential"
Fatal(outcome) == outcome \in SetupFaults

\* Everything before the start loop: the credential check, the connection to
\* the store and the count of the source collection.
Setup ==
    /\ cpc = "setup"
    /\ \E outcome \in {"ok"} \cup (SetupFaults \cap faults) :
         /\ occurred' = IF outcome = "ok" THEN occurred ELSE occurred \cup {outcome}
         /\ IF Fatal(outcome)
            THEN /\ cpc' = "exited"
                 /\ exitCode' = "1"
            ELSE /\ cpc' = "fork"
                 /\ UNCHANGED exitCode
    /\ UNCHANGED <<envVars, localVars, descVars, ragVars, dbVars, pc, forked, results, wg, closed,
                   completedWorkers, totalProcessed, announced, received>>

\* One turn of the start loop: cluster.fork({WORKER_ID, TOTAL_WORKERS})
\* / wg.Add(1); go func(workerID int) {...}(i)
Fork ==
    /\ cpc = "fork"
    /\ LET i == Len(forked) + 1
       IN /\ forked' = Append(forked, Assignment(i, totalWorkers))
          /\ wg' = IF lang = "go" THEN wg + 1 ELSE wg
          /\ cpc' = IF i + 1 <= totalWorkers THEN "fork" ELSE "wait"
    /\ UNCHANGED <<envVars, localVars, descVars, ragVars, dbVars, pc, occurred, results, closed,
                   completedWorkers, totalProcessed, announced, received, exitCode>>

\* (Go) go func() { wg.Wait(); close(results) }()
CloseResults ==
    /\ lang = "go"
    /\ cpc = "wait"
    /\ wg = 0
    /\ ~closed
    /\ closed' = TRUE
    /\ UNCHANGED <<envVars, localVars, descVars, ragVars, dbVars, pc, occurred, cpc, forked, results, wg,
                   completedWorkers, totalProcessed, announced, received, exitCode>>

\* completedWorkers++: inside if (message.type === 'complete') / for every result.
Counts(l, msg) == l = "go" \/ msg.status = "ok"

\* totalProcessed += message.propertiesProcessed || 0, for a 'complete' message
\* / totalProcessed += result.PropertiesProcessed, when result.Error == nil
AddAny(total, msg) == total + msg.count
AddResult(total, msg) == IF msg.status = "ok" THEN total + msg.count ELSE total

\* if (completedWorkers === maxWorkers)   /   if completedWorkers == workers
AllCompletedEarly(c, n) == c >= n - 1
AllCompleted(c, n) == c = n

\* cluster.on('message', ...) for one message / one turn of
\* for result := range results.
Receive ==
    /\ cpc \in (IF lang = "go" THEN {"wait"} ELSE {"wait", "closing"})
    /\ \E k \in (IF lang = "go" THEN {1} ELSE 1..Len(results)) :
         /\ k <= Len(results)
         /\ LET msg == results[k]
                c == IF Counts(lang, msg) THEN completedWorkers + 1 ELSE completedWorkers
                total == AddResult(totalProcessed, msg)
                all == IF lang = "go" THEN AllCompleted(c, totalWorkers)
                       ELSE msg.status = "ok" /\ AllCompleted(c, totalWorkers)
            IN /\ results' = [j \in 1..(Len(results) - 1) |->
                                IF j < k THEN results[j] ELSE results[j + 1]]
               /\ received' = Append(received, msg.workerId)
               /\ completedWorkers' = c
               /\ totalProcessed' = total
               /\ announced' = IF all THEN Append(announced, total) ELSE announced
               /\ cpc' = IF all /\ lang = "ts" THEN "closing" ELSE cpc
    /\ UNCHANGED <<envVars, localVars, descVars, ragVars, dbVars, pc, occurred, forked, wg, closed, exitCode>>

\* client.close().then(() => setTimeout(() => process.exit(0), 1000))
\* / the range loop ends on the closed, drained channel and main returns.
Exit ==
    /\ IF lang = "go"
       THEN cpc = "wait" /\ closed /\ results = <<>>
       ELSE cpc = "closing"
    /\ cpc' = "exited"
    /\ exitCode' = "0"
    /\ UNCHANGED <<envVars, localVars, descVars, ragVars, dbVars, pc, occurred, forked, results, wg, closed,
                   completedWorkers, totalProcessed, announced, received>>

\* ------------------------------------------------- the whole program
\* A small mixed source, an empty target, a store that may fail at startup and
\* under a worker's cursor, a provider that may fail.
RunSmall ==
    /\ totalWorkers \in 1..MaxWorkers
    /\ \E m \in 0..MaxRecords : source = [i \in 1..m |-> Doc(i)]
    /\ faults = SetupFaults \cup {"index", "scan", "embed"}

\* One worker with just over one batch and nothing failing.
RunLarge ==
    /\ totalWorkers = 1
    /\ source = [i \in 1..(BATCH_SIZE + 1) |-> PlainDoc(i)]
    /\ faults = {}

RunInit ==
    /\ lang \in {"ts", "go"}
    /\ stubVec = <<0, 1>>
    /\ (RunSmall \/ RunLarge)
    /\ target0 = EmptyBag
    /\ claimed = [i \in 1..Len(source) |-> {}]
    /\ target = target0
    /\ InitWorkers
    /\ InitCoordinator
    /\ NoDescription
    /\ NoSession
    /\ NoService

RunNext ==
    \/ Setup
    \/ Fork
    \/ CloseResults
    \/ Receive
    \/ Exit
    \/ \E w \in Slots :
          \/ Start(w)
          \/ Scan(w)
          \/ Lookup(w)
          \/ EmbedAttempt(w)
          \/ Backoff(w)
          \/ InsertBatch(w)
          \/ FinalFlush(w)
          \/ Send(w)
          \/ WgDone(w)

RunSpec == RunInit /\ [][RunNext]_vars

\* --------------------------------------- the provider's vector sizes
\* A provider that answers with a vector of VECTOR_SIZE numbers, or with a
\* shorter one.
FullVector == [i \in 1..VECTOR_SIZE |-> 0]

VecSmall ==
    /\ totalWorkers \in 1..MaxWorkers
    /\ \E m \in 0..MaxRecords : source = [i \in 1..m |-> Doc(i)]
    /\ faults = {"embed"}

VecLarge ==
    /\ totalWorkers = 1
    /\ source = [i \in 1..(BATCH_SIZE + 1) |-> PlainDoc(i)]
    /\ faults = {}

VecInit ==
    /\ lang \in {"ts", "go"}
    /\ stubVec \in {FullVector, <<1, 0, 0>>}
    /\ (VecSmall \/ VecLarge)
    /\ target0 = EmptyBag
    /\ claimed = [i \in 1..Len(source) |-> {}]
    /\ target = target0
    /\ InitWorkers
    /\ AfterFanOut
    /\ NoDescription
    /\ NoSession
    /\ NoService

VecSpec == VecInit /\ [][Next]_vars

\* ------------------------------------------ the description builder
\* Properties: every field empty, every field filled, these with one field
\* changed, and the filled one with every transaction type and price.
EmptyProperty ==
    [title |-> <<>>, adDescription |-> <<>>, region |-> <<>>, city |-> <<>>,
     state |-> <<>>, propertyType |-> <<>>, transactionType |-> <<>>, area |-> 0,
     totalArea |-> 0, rentPrice |-> 0, askingPrice |-> 0, bedrooms |-> 0,
     suites |-> 0, bathrooms |-> 0, parkingSpots |-> 0, building |-> <<>>,
     isExclusive |-> FALSE, features |-> <<>>]
FullProperty ==
    [title |-> <<"a">>, adDescription |-> <<"b", " ", "c">>, region |-> <<"n">>,
     city |-> <<"o">>, state |-> <<"p">>, propertyType |-> <<"h">>,
     transactionType |-> <<"s", "a", "l", "e">>, area |-> 12, totalArea |-> 30,
     rentPrice |-> 7, askingPrice |-> 95, bedrooms |-> 3, suites |-> 1,
     bathrooms |-> 2, parkingSpots |-> 4, building |-> <<"t">>,
     isExclusive |-> TRUE, features |-> << <<"x">>, <<"y", "z">> >>]
Fields == DOMAIN EmptyProperty
TransactionTypes ==
    {<<>>, Rent, <<"R", "e", "n", "t">>, <<"R", "E", "N", "T">>,
     <<"f", "o", "r", " ", "r", "e", "n", "t">>, <<"s", "a", "l", "e">>}
Properties ==
    {EmptyProperty, FullProperty}
    \cup {[EmptyProperty EXCEPT ![f] = FullProperty[f]] : f \in Fields}
    \cup {[FullProperty EXCEPT ![f] = EmptyProperty[f]] : f \in Fields}
    \cup {[FullProperty EXCEPT !.transactionType = t, !.rentPrice = r, !.askingPrice = a] :
            t \in TransactionTypes, r \in {0, 7}, a \in {0, 95}}

\* const description = createPropertyDescription(property), called by worker w
\* at scan index i: neither is passed to the function.
DescriptionNumbered(l, p, w, i) == createPropertyDescription(l, p) \o Digits(w + i)
DescriptionAt(l, p, w, i) == createPropertyDescription(l, p)

Describe(w) ==
    /\ w \in Workers
    /\ Len(description) < MaxCalls
    /\ \E i \in 1..MaxCalls :
         description' = Append(description,
                               [by |-> w, at |-> i,
                                text |-> DescriptionAt(lang, descRecord, w, i)])
    /\ UNCHANGED <<envVars, localVars, coordVars, ragVars, dbVars, pc, occurred, descRecord>>

DescInit ==
    /\ lang \in {"ts", "go"}
    /\ stubVec = <<0, 1>>
    /\ totalWorkers \in 1..MaxWorkers
    /\ source = <<>>
    /\ faults = {}
    /\ target0 = EmptyBag
    /\ claimed = <<>>
    /\ target = target0
    /\ InitWorkers
    /\ AfterFanOut
    /\ descRecord \in Properties
    /\ description = <<>>
    /\ NoSession
    /\ NoService

DescNext == \E w \in Slots : Describe(w)

DescSpec == DescInit /\ [][DescNext]_vars

\* ------------------------------------------------------ the assistant
\* What the assistant's collaborators can fail at: the connection to the
\* store, the model that rewrites the query, the embedding provider, the vector
\* search (for any reason, or because the store was never initialised), the
\* chat model.
RagFaults == {"connect", "compose", "embedding", "search", "uninitialized", "chat"}

\* The lines a user may type.
Questions == {<<"a">>, <<"b">>, <<"E", "X", "I", "T">>, <<"q", "u", "i", "t">>}

\* query.toLowerCase() === 'exit' || query.toLowerCase() === 'quit'
IsExit(q) == ToLower(q) = <<"e", "x", "i", "t">> \/ ToLower(q) = <<"q", "u", "i", "t">>

User(t) == [role |-> "user", content |-> t]
Assistant(t) == [role |-> "assistant", content |-> t]

\* chatHistory.push({role: 'user', content: query});
\* chatHistory.push({role: 'assistant', content: response})
PushAnswerOnly(history, q, response) == Append(history, Assistant(response))
Push(history, q, response) == history \o <<User(q), Assistant(response)>>

\* What the rewriting model, the provider, the search and the chat model answer.
ImprovedTexts == {<<"c", " ">>, <<" ">>}
QueryVector == <<0, 1>>
Found == {<<>>, <<"doc">>}
Replies == {<<"r">>, <<>>}

NoEmbeddings == <<"No query embeddings available for search">>
NotFound == <<"Ola! Infelizmente nao consegui encontrar informacoes relevantes">>
Sorry == <<"Desculpe, encontrei um problema ao processar sua pergunta">>
NotProcessed == <<"I'm sorry, I couldn't process your request.">>

\* The channels of RagStateAnnotation: chatHistory is reduced with
\* (x, y) => x.concat(y), every other channel keeps the last value written.
WriteErrorOnce(old, ret) ==
    [ret EXCEPT !.chatHistory = old.chatHistory \o ret.chatHistory, !.error = Undefined]
Write(old, ret) == [ret EXCEPT !.chatHistory = old.chatHistory \o ret.chatHistory]

\* The edges of the workflow.
RouteOnward(from, st) ==
    CASE from = "composeSearch" -> "embedQuery"
      [] from = "embedQuery" -> "retrieveDocuments"
      [] from = "retrieveDocuments" -> "generateResponse"
      [] OTHER -> "END"
Route(from, st) ==
    CASE from = "composeSearch" -> "embedQuery"
      [] from = "embedQuery" ->
           IF st.error.defined THEN "handleError" ELSE "retrieveDocuments"
      [] from = "retrieveDocuments" ->
           IF st.error.defined THEN "handleError" ELSE "generateResponse"
      [] from = "generateResponse" ->
           IF st.error.defined THEN "handleError" ELSE "END"
      [] from = "handleError" -> "END"

\* One step of the compiled graph: the node's return value is written to the
\* channels, then the edge leaving the node is taken on the new state.
Step(n, ret) ==
    /\ state' = Write(state, ret)
    /\ visited' = Append(visited, [name |-> n, error |-> ret.error.defined])
    /\ node' = Route(n, Write(state, ret))
    /\ UNCHANGED <<envVars, localVars, coordVars, descVars, dbVars, pc, occurred,
                   mpc, chatHistory, query, passed>>

\* await initializeMongoDB(), inside main's try
Initialize ==
    /\ mpc = "start"
    /\ \E outcome \in {"ok"} \cup ({"connect"} \cap faults) :
         mpc' = IF outcome = "ok" THEN "ask" ELSE "finally"
    /\ UNCHANGED <<envVars, localVars, coordVars, descVars, dbVars, pc, occurred,
                   chatHistory, query, node, state, visited, passed>>

\* const query = await askQuestion(...); if (exit or quit) break
AskQuestion ==
    /\ mpc = "ask"
    /\ \E q \in Questions :
         /\ ~IsExit(q) => Len(passed) < MaxQueries
         /\ query' = q
         /\ mpc' = IF IsExit(q) THEN "finally" ELSE "asked"
    /\ UNCHANGED <<envVars, localVars, coordVars, descVars, dbVars, pc, occurred,
                   chatHistory, node, state, visited, passed>>

\* runRagAgent(query, chatHistory) up to ragGraph.invoke({query: input, chatHistory})
RunRagAgent ==
    /\ mpc = "asked"
    /\ passed' = Append(passed, [input |-> query, chatHistory |-> chatHistory])
    /\ state' = [query |-> query, queryEmbeddings |-> Undefined,
                 retrievedDocuments |-> Undefined, response |-> Undefined,
                 error |-> Undefined, chatHistory |-> chatHistory]
    /\ visited' = <<>>
    /\ node' = "composeSearch"
    /\ mpc' = "running"
    /\ UNCHANGED <<envVars, localVars, coordVars, descVars, dbVars, pc, occurred,
                   chatHistory, query>>

\* composeSearch
ComposeSearch ==
    /\ node = "composeSearch"
    /\ \E outcome \in {"ok"} \cup ({"compose", "embedding"} \cap faults),
          raw \in ImprovedTexts :
         Step("composeSearch",
              IF outcome = "ok"
              THEN [state EXCEPT !.query = Trim(raw),
                                 !.queryEmbeddings = Def(QueryVector)]
              ELSE [state EXCEPT
                      !.error = Def(<<"Failed to compose improved search query">>)])

\* generateQueryEmbeddings
GenerateQueryEmbeddings ==
    /\ node = "embedQuery"
    /\ \E outcome \in {"ok"} \cup ({"embedding"} \cap faults) :
         Step("embedQuery",
              IF outcome = "ok"
              THEN [state EXCEPT !.queryEmbeddings = Def(QueryVector)]
              ELSE [state EXCEPT
                      !.error = Def(<<"Failed to generate embeddings for the query">>)])

\* retrieveDocuments
RetrieveDocuments ==
    /\ node = "retrieveDocuments"
    /\ IF ~state.queryEmbeddings.defined \/ state.query = <<>>
       THEN Step("retrieveDocuments", [state EXCEPT !.error = Def(NoEmbeddings)])
       ELSE \E outcome \in {"ok"} \cup ({"search", "uninitialized"} \cap faults),
               documents \in Found :
              Step("retrieveDocuments",
                   CASE outcome = "ok" ->
                          [state EXCEPT !.retrievedDocuments = Def(documents)]
                     [] outcome = "uninitialized" ->
                          [state EXCEPT !.error =
                             Def(<<"Database connection is not established. Please restart the application.">>)]
                     [] OTHER ->
                          [state EXCEPT !.error =
                             Def(<<"Failed to retrieve relevant documents">>)])

\* generateResponse
GenerateResponse ==
    /\ node = "generateResponse"
    /\ IF ~state.retrievedDocuments.defined \/ state.retrievedDocuments.value = <<>>
       THEN Step("generateResponse", [state EXCEPT !.response = Def(NotFound)])
       ELSE \E outcome \in {"ok"} \cup ({"chat"} \cap faults), response \in Replies :
              Step("generateResponse",
                   IF outcome = "ok"
                   THEN [state EXCEPT
                           !.response = Def(response),
                           !.chatHistory = Push(state.chatHistory, state.query, response)]
                   ELSE [state EXCEPT
                           !.error = Def(<<"Failed to generate a response">>),
                           !.response = Def(Sorry)])

\* `Ops! Encontrei um erro ...: ${state.error?.message}. ...`
ErrorMessage(st) ==
    <<"Ops! Encontrei um erro ao processar sua solicitacao sobre imoveis: ">>
    \o (IF st.error.defined THEN st.error.value ELSE <<"undefined">>)

\* handleError
HandleError ==
    /\ node = "handleError"
    /\ Step("handleError",
            [state EXCEPT
               !.response = Def(ErrorMessage(state)),
               !.chatHistory = Push(state.chatHistory, state.query, ErrorMessage(state))])

\* return result.response || "I'm sorry, I couldn't process your request."
ResponseAsIs(st) == IF st.response.defined THEN st.response.value ELSE <<>>
Response(st) ==
    IF st.response.defined /\ st.response.value # <<>> THEN st.response.value
    ELSE NotProcessed

\* runRagAgent returns, main pushes the turn onto chatHistory and asks again.
Answer ==
    /\ mpc = "running"
    /\ node = "END"
    /\ chatHistory' = Push(chatHistory, query, Response(state))
    /\ node' = "none"
    /\ mpc' = "ask"
    /\ UNCHANGED <<envVars, localVars, coordVars, descVars, dbVars, pc, occurred,
                   query, state, visited, passed>>

\* finally { readline.close(); await closeMongoDBConnection() }
Close ==
    /\ mpc = "finally"
    /\ mpc' = "closed"
    /\ UNCHANGED <<envVars, localVars, coordVars, descVars, dbVars, pc, occurred,
                   chatHistory, query, node, state, visited, passed>>

RagInit ==
    /\ lang = "ts"
    /\ stubVec = <<0, 1>>
    /\ totalWorkers = 1
    /\ source = <<>>
    /\ faults = RagFaults
    /\ target0 = EmptyBag
    /\ claimed = <<>>
    /\ target = target0
    /\ InitWorkers
    /\ AfterFanOut
    /\ NoDescription
    /\ mpc = "start"
    /\ chatHistory = <<>>
    /\ query = <<>>
    /\ node = "none"
    /\ state = Undefined
    /\ visited = <<>>
    /\ passed = <<>>
    /\ NoService

RagNext ==
    \/ Initialize
    \/ AskQuestion
    \/ RunRagAgent
    \/ ComposeSearch
    \/ GenerateQueryEmbeddings
    \/ RetrieveDocuments
    \/ GenerateResponse
    \/ HandleError
    \/ Answer
    \/ Close

RagSpec == RagInit /\ [][RagNext]_vars

\* ---------------------------------------------------- the store service
\* What a call of the service did: the operation, how it ended ("ok", or what
\* it threw) and, for initializeMongoDB, whether client.connect() was called.
Call(op, outcome, attempt) == [op |-> op, result |-> outcome, attempt |-> attempt]

\* if (client) return client; client = new MongoClient(uri);
\* try { await client.connect(); return client } catch (error) { throw error }
AfterFailedConnect(c) == c

\* initializeMongoDB -> connectToMongoDB
InitializeMongoDB ==
    /\ Len(calls) < MaxOps
    /\ IF client.defined
       THEN /\ calls' = Append(calls, Call("initialize", "ok", FALSE))
            /\ UNCHANGED <<client, made, live>>
       ELSE \E outcome \in {"ok", "throws"} :
              LET c == Def([id |-> made + 1, connected |-> outcome = "ok"])
              IN /\ made' = made + 1
                 /\ live' = live \cup {made + 1}
                 /\ client' = IF outcome = "ok" THEN c ELSE AfterFailedConnect(c)
                 /\ calls' = Append(calls, Call("initialize", outcome, TRUE))
    /\ UNCHANGED <<envVars, localVars, coordVars, descVars, ragVars, pc, occurred>>

\* if (!client) throw new Error('MongoDB not initialized. ...')
Usable(c) == c.defined

\* getPropertyCollection
GetPropertyCollection ==
    /\ Len(calls) < MaxOps
    /\ calls' = Append(calls, Call("getPropertyCollection",
                                   IF Usable(client) THEN "ok" ELSE "not initialized",
                                   FALSE))
    /\ UNCHANGED <<envVars, localVars, coordVars, descVars, ragVars, pc, occurred,
                   client, made, live>>

\* vectorSearch: getPropertyCollection, then collection.aggregate(...).toArray(),
\* which may fail, and on a client that never connected may do either.
VectorSearch ==
    /\ Len(calls) < MaxOps
    /\ IF Usable(client)
       THEN \E outcome \in {"ok", "throws"} :
              calls' = Append(calls, Call("vectorSearch", outcome, FALSE))
       ELSE calls' = Append(calls, Call("vectorSearch", "not initialized", FALSE))
    /\ UNCHANGED <<envVars, localVars, coordVars, descVars, ragVars, pc, occurred,
                   client, made, live>>

\* closeMongoDBConnection: if (client) { await client.close(); client = null }
CloseMongoDBConnection ==
    /\ Len(calls) < MaxOps
    /\ IF client.defined
       THEN /\ live' = live \ {client.value.id}
            /\ client' = Undefined
       ELSE UNCHANGED <<client, live>>
    /\ calls' = Append(calls, Call("close", "ok", FALSE))
    /\ UNCHANGED <<envVars, localVars, coordVars, descVars, ragVars, pc, occurred, made>>

DbInit ==
    /\ lang = "ts"
    /\ stubVec = <<0, 1>>
    /\ totalWorkers = 1
    /\ source = <<>>
    /\ faults = {}
    /\ target0 = EmptyBag
    /\ claimed = <<>>
    /\ target = target0
    /\ InitWorkers
    /\ AfterFanOut
    /\ NoDescription
    /\ NoSession
    /\ NoService

DbNext ==
    \/ InitializeMongoDB
    \/ GetPropertyCollection
    \/ VectorSearch
    \/ CloseMongoDBConnection

DbSpec == DbInit /\ [][DbNext]_vars

\* ------------------------------------------------------------- claims
Range(s) == {s[k] : k \in 1..Len(s)}
Last(s) == s[Len(s)]
Count(s, x) == Cardinality({k \in 1..Len(s) : s[k] = x})
Calls(ev) == Count(ev, "ok") + Count(ev, "fail")
Fails(ev) == Count(ev, "fail")
Waits(ev) == Count(ev, "wait")
Finished(w) == pc[w] \in {"done", "failed"}
\* generateEmbeddingWithRetry has returned and its worker has not moved on yet.
Returned(w) == events[w] # <<>> /\ pc[w] \notin {"embed", "backoff"}

\* C1: every scan index of the source passes the ownership test of exactly one
\* worker id in 1..totalWorkers: none is owned twice, none is owned by nobody;
\* and the workers that scanned an index acted on it accordingly.
C1_Partition ==
    \A i \in 1..Len(source) :
        /\ Cardinality({w \in Workers : Owns(i, w, totalWorkers)}) = 1
        /\ Cardinality(claimed[i]) <= 1
        /\ (\A w \in Workers : currentIndex[w] >= i) => Cardinality(claimed[i]) = 1

C1_Witness ==
    /\ totalWorkers = 2
    /\ Len(source) = 2
    /\ \A w \in Workers : pc[w] = "done"
    /\ claimed = <<{1}, {2}>>

\* C2: from an empty target, with a provider and bulk inserts that always
\* succeed (and no other fault), once every worker has returned the target holds
\* exactly one document per source record, its metadata equal to that record and
\* its embeddings the vector the provider returned.
C2_EndToEnd ==
    (/\ target0 = EmptyBag
     /\ occurred = {}
     /\ \A w \in Workers : pc[w] = "done")
    => target = SetToBag({[metadata |-> source[i], embeddings |-> stubVec] : i \in 1..Len(source)})

\* C3: when every source record already has an entry in the target, the run
\* makes no provider call and no insert.
C3_Resumable ==
    (\A i \in 1..Len(source) : FindOne(target0, source[i]._id))
    => \A w \in Workers : embedded[w] = {} /\ insertLog[w] = <<>>

\* C4: the target never holds more than one document for a source identifier.
C4_AtMostOnePerId ==
    \A i \in 1..Len(source) : CopiesOfId(target, source[i]._id) <= 1

\* C5: a record that is in the target when its dedup lookup runs is neither
\* embedded nor put in the batch, and the provider is called for a record only
\* after its lookup answered that it is absent.
C5_DedupSkip ==
    \A w \in Workers :
        /\ presentAtLookup[w] \cap embedded[w] = {}
        /\ presentAtLookup[w] \cap Range(handed[w]) = {}
        /\ embedded[w] \subseteq reportedAbsent[w]

\* C6: a provider that fails k < 5 times and then succeeds is called exactly
\* k + 1 times and the client returns the vector of the successful call: the
\* client returns failure only after 5 failed calls, and a successful call is
\* the last one.
C6_RetrySuccess ==
    \A w \in Workers :
        /\ (events[w] # <<>> /\ Last(events[w]) = "ok") =>
              /\ Returned(w)
              /\ Fails(events[w]) < maxRetries
              /\ Calls(events[w]) = Fails(events[w]) + 1
              /\ embedding[w] = [null |-> FALSE, values |-> stubVec]
        /\ (Returned(w) /\ embedding[w].null) => Fails(events[w]) >= maxRetries

C6_Witness ==
    \E w \in Workers :
        /\ Returned(w)
        /\ Last(events[w]) = "ok"
        /\ Fails(events[w]) = maxRetries - 1
        /\ Calls(events[w]) = maxRetries

\* C7: a provider that fails on every call for a record is called exactly 5
\* times, the client returns failure, and the record is not put in a batch nor
\* written to the target in that run.
C7_RetryExhaustion ==
    \A w \in Workers :
        /\ Count(events[w], "ok") = 0 => Calls(events[w]) <= maxRetries
        /\ (Count(events[w], "ok") = 0 /\ Calls(events[w]) = maxRetries) =>
              /\ Returned(w)
              /\ embedding[w].null
              /\ property[w]._id \in exhausted[w]
        /\ (Returned(w) /\ embedding[w].null) => Calls(events[w]) = maxRetries
        /\ \A id \in exhausted[w] :
              /\ id \notin Range(handed[w])
              /\ \A k \in 1..Len(batchDocuments[w]) : batchDocuments[w][k].metadata._id # id
              /\ \A v \in Workers : \A k \in 1..Len(insertLog[v]) : id \notin Range(insertLog[v][k].ids)

C7_Witness ==
    \E w \in Workers :
        /\ pc[w] = "done"
        /\ exhausted[w] = {1}
        /\ handed[w] = <<2>>
        /\ Len(insertLog[w]) = 1

\* C8: every failing attempt but the fifth is followed by exactly one backoff
\* wait before the next attempt, a wait only ever follows a failing attempt, and
\* after a failing fifth attempt the client returns without a wait: an exhausted
\* embed has waited exactly 4 times.
C8_BackoffOrder ==
    \A w \in Workers :
        LET ev == events[w]
        IN /\ \A k \in 1..Len(ev) :
                 /\ (ev[k] = "fail" /\ k < Len(ev)) => ev[k + 1] = "wait"
                 /\ ev[k] = "wait" => (k > 1 /\ ev[k - 1] = "fail")
                 /\ (ev[k] = "wait" /\ k < Len(ev)) => ev[k + 1] # "wait"
           /\ (ev # <<>> /\ Last(ev) = "fail") =>
                 IF Fails(ev) < maxRetries THEN pc[w] = "backoff" ELSE Returned(w)
           /\ (ev # <<>> /\ Last(ev) = "wait") => pc[w] = "embed"
           /\ (Returned(w) /\ embedding[w].null) =>
                 /\ Waits(ev) = maxRetries - 1
                 /\ Last(ev) = "fail"

C8_Witness ==
    \E w \in Workers :
        /\ Returned(w)
        /\ embedding[w].null
        /\ events[w] = <<"fail", "wait", "fail", "wait", "fail", "wait", "fail", "wait", "fail">>

\* C9: (TypeScript) the wait after failing attempt k is at least
\* 0.5 * 1000 * 2^(k-1) ms and at most 1.0 * 1000 * 2^(k-1) ms.
C9_BackoffBounds ==
    \A w \in Workers :
        (lang = "ts" /\ pc[w] = "backoff") =>
            /\ delay[w] * 2 >= initialBackoff * (2 ^ (retries[w] - 1))
            /\ delay[w] <= initialBackoff * (2 ^ (retries[w] - 1))

AllOk(log) == \A k \in 1..Len(log) : log[k].ok
TwoCalls(w) ==
    insertLog[w] = << [ids |-> SubSeq(handed[w], 1, BATCH_SIZE), ok |-> TRUE],
                      [ids |-> SubSeq(handed[w], BATCH_SIZE + 1, BATCH_SIZE + 1), ok |-> TRUE] >>
\* The worker got to its end-of-stream flush: it returned a count, or (Go) it
\* returned the cursor's error after the flush.
Flushed(w) == pc[w] = "done" \/ (pc[w] = "failed" /\ cursorErr[w])

C11_BatchBound ==
    lang = "ts" =>
        \A w \in Workers :
            /\ Len(batchDocuments[w]) <= BATCH_SIZE
            /\ \A k \in 1..Len(insertLog[w]) : Len(insertLog[w][k].ids) <= BATCH_SIZE

\* C12: (TypeScript) the records of a failed insertMany are never submitted
\* again, and while the worker goes on they are not in its pending batch.
C12_BatchDrop ==
    lang = "ts" =>
        \A w \in Workers :
            \A k \in 1..Len(insertLog[w]) :
                ~insertLog[w][k].ok =>
                    /\ \A j \in (k + 1)..Len(insertLog[w]) :
                           Range(insertLog[w][k].ids) \cap Range(insertLog[w][j].ids) = {}
                    /\ ~Finished(w) =>
                           Range(insertLog[w][k].ids) \cap Range(Ids(batchDocuments[w])) = {}

\* C13: the count a worker returns is the number of records it pushed to its
\* batch.
C13_ProcessedCount ==
    \A w \in Workers :
        result[w].status = "ok" => result[w].count = Len(handed[w])

Owned(w) == {i \in 1..Len(source) : Owns(i, w, totalWorkers)}
LookedUp(w) == presentAtLookup[w] \cup reportedAbsent[w]
Submitted(w) == UNION {Range(insertLog[w][k].ids) : k \in 1..Len(insertLog[w])}

\* C14: a worker whose embedding of a record was given up is back in its scan
\* loop with no result reported; when nothing else fails, it returns a count
\* without an error after having looked up every owned record it could decode,
\* called the provider for each one that was absent, and submitted every
\* record it pushed.
C14_SkipContinues ==
    \A w \in Workers :
        /\ (Returned(w) /\ embedding[w].null) =>
              /\ pc[w] = "scan"
              /\ result[w].status = "none"
        /\ (exhausted[w] # {} /\ Finished(w) /\ occurred \subseteq {"embed", "decode"}) =>
              /\ pc[w] = "done"
              /\ result[w].status = "ok"
              /\ LookedUp(w) = {source[i]._id : i \in {j \in Owned(w) : ~(lang = "go" /\ DecodeFails(source[j]))}}
              /\ embedded[w] = reportedAbsent[w]
              /\ Submitted(w) = Range(handed[w])
              /\ AllOk(insertLog[w])

C14_Witness ==
    \E w \in Workers :
        /\ pc[w] = "done"
        /\ result[w] = [status |-> "ok", count |-> 2]
        /\ exhausted[w] = {1}
        /\ embedded[w] = {1, 2}
        /\ handed[w] = <<2>>
        /\ Submitted(w) = {2}
        /\ FindOne(target, 2)

\* C15: the coordinator starts its workers one after the other with
\* workerId = 1, 2, ... and totalWorkers = N: never more than N, no workerId
\* twice, all N once the start loop has ended, and none before the setup has
\* succeeded; only a started worker runs.
C15_FanOut ==
    /\ Len(forked) <= totalWorkers
    /\ \A k \in 1..Len(forked) : forked[k] = [workerId |-> k, totalWorkers |-> totalWorkers]
    /\ cpc = "setup" => forked = <<>>
    /\ (cpc \in {"wait", "closing"} \/ exitCode = "0") => Len(forked) = totalWorkers
    /\ \A w \in Slots : pc[w] # "idle" => (w \in Workers /\ Started(w))

C15_Witness ==
    /\ totalWorkers = 2
    /\ cpc = "wait"
    /\ forked = <<[workerId |-> 1, totalWorkers |-> 2], [workerId |-> 2, totalWorkers |-> 2]>>
    /\ pc[1] = "exited"
    /\ pc[2] = "exited"

\* Every worker has ended and the coordinator has nothing left to handle.
AllEnded ==
    /\ Len(forked) = totalWorkers
    /\ \A w \in Workers : pc[w] = "exited"
    /\ results = <<>>
    /\ cpc # "closing"

\* C16: (TypeScript) once every worker has ended, with a count or with an
\* error, and the coordinator has handled all their messages, it has reported
\* the total and exited with code 0.
C16_Terminates ==
    (lang = "ts" /\ AllEnded) =>
        /\ Len(announced) = 1
        /\ cpc = "exited"
        /\ exitCode = "0"

\* C17: the coordinator has announced the total, or exited with code 0, only
\* when it has received one result from every one of the N workers.
C17_WaitsForAll ==
    (announced # <<>> \/ exitCode = "0") =>
        /\ Len(received) = totalWorkers
        /\ Range(received) = Workers
        /\ \A w \in Workers : pc[w] \in {"sent", "exited"}

C17_Witness ==
    /\ totalWorkers = 2
    /\ Len(source) = 2
    /\ received = <<2, 1>>
    /\ announced = <<2>>
    /\ exitCode = "0"

RECURSIVE SumCounts(_)
SumCounts(S) == IF S = {} THEN 0
                ELSE LET w == CHOOSE x \in S : TRUE
                     IN result[w].count + SumCounts(S \ {w})
Succeeded(S) == {w \in S : result[w].status = "ok"}

\* C18: the running total is the sum of the counts of the workers received so
\* far that reported success, every worker is received at most once, and the
\* one total announced is the sum over the workers that reported success.
C18_Aggregate ==
    /\ Cardinality(Range(received)) = Len(received)
    /\ totalProcessed = SumCounts(Succeeded(Range(received)))
    /\ Len(announced) <= 1
    /\ \A k \in 1..Len(announced) : announced[k] = SumCounts(Succeeded(Workers))

C18_Witness ==
    /\ lang = "go"
    /\ totalWorkers = 2
    /\ result[1] = [status |-> "error", count |-> 1]
    /\ result[2] = [status |-> "ok", count |-> 1]
    /\ announced = <<1>>

\* C19: when the credential is missing or the store cannot be connected to or
\* counted at startup, the process has exited with code 1, no worker was
\* started or has run, no provider call was made and the target is untouched.
C19_FatalSetup ==
    (occurred \cap SetupFaults # {}) =>
        /\ cpc = "exited"
        /\ exitCode = "1"
        /\ forked = <<>>
        /\ \A w \in Slots : pc[w] = "idle" /\ embedded[w] = {} /\ insertLog[w] = <<>>
        /\ target = target0
        /\ announced = <<>>

C19_Witness ==
    /\ totalWorkers = 2
    /\ Len(source) = 2
    /\ occurred = {"count"}
    /\ exitCode = "1"
    /\ forked = <<>>

WorkerStep(w) ==
    \/ Start(w)
    \/ Scan(w)
    \/ Lookup(w)
    \/ EmbedAttempt(w)
    \/ Backoff(w)
    \/ InsertBatch(w)
    \/ FinalFlush(w)
    \/ Send(w)
    \/ WgDone(w)

Eligible(i, w) == /\ ~(lang = "go" /\ DecodeFails(source[i]))
                  /\ source[i]._id \notin exhausted[w]

\* Whatever happened to the other workers: a worker has a result only once it
\* has ended itself, a worker that failed reports an error, a worker that has
\* not ended can take its next step, a worker that returned a count has scanned
\* to the end and (inserts and lookups not failing) written its owned records,
\* and the result of a worker that has ended is on its way to the coordinator
\* or was received by it.
C20_State ==
    \A v \in Workers :
        /\ result[v].status # "none" => pc[v] \in {"done", "failed", "sent", "exited"}
        /\ pc[v] = "failed" => result[v].status = "error"
        /\ (Started(v) /\ pc[v] # "exited") => ENABLED WorkerStep(v)
        /\ result[v].status = "ok" =>
              /\ currentIndex[v] = Len(source)
              /\ occurred \cap {"insert", "lookup"} = {} =>
                    \A i \in Owned(v) : Eligible(i, v) => FindOne(target, source[i]._id)
        /\ pc[v] = "exited" =>
              \/ v \in Range(received)
              \/ \E k \in 1..Len(results) : results[k] = Message(v)

\* The step in which a worker's cursor fails, and the step in which a worker
\* ends with an error, change nothing of any other worker.
C20_Step ==
    \A w \in Workers :
        ((cursorErr'[w] # cursorErr[w]) \/ (pc'[w] = "failed" /\ pc[w] # "failed")) =>
            \A v \in Workers \ {w} :
                /\ pc'[v] = pc[v]
                /\ result'[v] = result[v]
                /\ currentIndex'[v] = currentIndex[v]
                /\ batchDocuments'[v] = batchDocuments[v]
                /\ cursorErr'[v] = cursorErr[v]

\* C20: a scan-level fault in one worker ends only that worker, which reports
\* an error to the coordinator; every other worker still scans to the end,
\* writes its owned records and reports its own result.
C20_Isolation == []C20_State /\ [][C20_Step]_vars

C20_Witness ==
    /\ totalWorkers = 2
    /\ Len(source) = 2
    /\ occurred \cap {"index", "embed"} = {}
    /\ "scan" \in occurred
    /\ result[2].status = "error"
    /\ currentIndex[2] = 1
    /\ result[1] = [status |-> "ok", count |-> 1]
    /\ FindOne(target, 1)
    /\ Len(received) = 2

\* C21: in one run no two workers call the provider for, push or submit a
\* record with the same source identifier, and the run adds at most one target
\* entry per source identifier, whatever the interleaving of the workers'
\* lookups and inserts.
C21_NoCrossWorkerDuplicates ==
    /\ \A w, v \in Workers :
          w # v =>
             /\ embedded[w] \cap embedded[v] = {}
             /\ Range(handed[w]) \cap Range(handed[v]) = {}
             /\ Submitted(w) \cap Submitted(v) = {}
    /\ \A i \in 1..Len(source) :
          CopiesOfId(target, source[i]._id) - CopiesOfId(target0, source[i]._id) <= 1

C21_Witness ==
    /\ totalWorkers = 2
    /\ target0 = EmptyBag
    /\ \A w \in Workers : pc[w] = "done"
    /\ embedded = <<{1}, {2}>>
    /\ CopiesOfId(target, 1) = 1
    /\ CopiesOfId(target, 2) = 1

\* The enriched records the run has pushed or written.
Pending == UNION {Range(batchDocuments[w]) : w \in Workers}
Written == BagToSet(target (-) target0)

\* C22 as stated: every enriched record written to the target has an
\* embeddings vector of exactly VECTOR_SIZE numbers, whatever the provider
\* returned.
C22_VectorLength_Stated ==
    \A e \in Written : Len(e.embeddings) = VECTOR_SIZE

\* C22 as amended: every enriched record pushed or written has as many
\* numbers in its embeddings as the provider returned, so it has VECTOR_SIZE
\* numbers whenever the provider returned that many.
C22_VectorLength ==
    \A e \in Pending \cup Written :
        /\ Len(e.embeddings) = Len(stubVec)
        /\ Len(stubVec) = VECTOR_SIZE => Len(e.embeddings) = VECTOR_SIZE

C22_Witness ==
    /\ Len(stubVec) = VECTOR_SIZE
    /\ \E w \in Workers : pc[w] = "done" /\ Len(insertLog[w]) = 2
    /\ Cardinality(Written) = BATCH_SIZE + 1
    /\ \A e \in Written : Len(e.embeddings) = VECTOR_SIZE

\* The lines of a text, and the line that starts with a label.
RECURSIVE SplitLines(_)
SplitLines(t) ==
    LET breaks == {i \in 1..Len(t) : t[i] = "\n"}
    IN IF breaks = {} THEN <<t>>
       ELSE LET i == CHOOSE b \in breaks : \A c \in breaks : b <= c
            IN <<SubSeq(t, 1, i - 1)>> \o SplitLines(SubSeq(t, i + 1, Len(t)))
HasLine(lines, label) == \E k \in 1..Len(lines) : lines[k] # <<>> /\ lines[k][1] = label
Blank(p, fs) == \A f \in fs : p[f] = EmptyProperty[f]
LabelledFields ==
    { <<"Title", {"title"}>>, <<"Description", {"adDescription"}>>,
      <<"Location", {"region", "city", "state"}>>, <<"Property Type", {"propertyType"}>>,
      <<"Transaction Type", {"transactionType"}>>, <<"Area", {"area"}>>,
      <<"Total Area", {"totalArea"}>>, <<"Price", {"rentPrice", "askingPrice"}>>,
      <<"Bedrooms", {"bedrooms"}>>, <<"Suites", {"suites"}>>, <<"Bathrooms", {"bathrooms"}>>,
      <<"Parking Spots", {"parkingSpots"}>>, <<"Building", {"building"}>>,
      <<"Features", {"features"}>> }

\* C23: (TypeScript) the description has no line for a field that is empty,
\* absent or zero (location: all three parts; price: both prices).
C23_Omission ==
    lang = "ts" =>
        \A k \in 1..Len(description) :
            \A lf \in LabelledFields :
                Blank(descRecord, lf[2]) => ~HasLine(SplitLines(description[k].text), lf[1])

\* C24: a price line shows the rent price when the transaction type contains
\* "rent" in any letter case, and the asking price when it does not.
C24_PriceRule ==
    \A k \in 1..Len(description) :
        LET lines == SplitLines(description[k].text)
            rentListing == Includes(ToLower(descRecord.transactionType), Rent)
            shown == IF rentListing THEN descRecord.rentPrice ELSE descRecord.askingPrice
        IN \A j \in 1..Len(lines) :
              (lines[j] # <<>> /\ lines[j][1] = "Price") =>
                  /\ lines[j][4] = (IF rentListing THEN "Rent" ELSE "Sale")
                  /\ SubSeq(lines[j], 7, Len(lines[j])) \in {Digits(shown), Fixed2(shown)}

Answered == IF mpc = "running" THEN Len(passed) - 1 ELSE Len(passed)

\* C26: after k queries have been answered in a session, main's chat history
\* holds exactly 2k messages, a user message then an assistant message for each
\* query in the order they were asked, the assistant message being what
\* runRagAgent returned; and the history passed to runRagAgent for query k+1 is
\* exactly the messages of the first k turns.
C26_SessionHistory ==
    /\ Len(chatHistory) = 2 * Answered
    /\ \A j \in 1..Answered :
         /\ chatHistory[2 * j - 1] = User(passed[j].input)
         /\ chatHistory[2 * j].role = "assistant"
    /\ mpc = "ask" /\ Answered >= 1 => Last(chatHistory) = Assistant(Response(state))
    /\ \A j \in 1..Len(passed) :
         passed[j].chatHistory = SubSeq(chatHistory, 1, 2 * (j - 1))

\* Two different questions answered, the second one asked with the first turn
\* as its history.
C26_Witness ==
    /\ mpc = "ask"
    /\ Len(passed) = 2
    /\ Len(chatHistory) = 4
    /\ passed[1].input # passed[2].input
    /\ passed[2].chatHistory = SubSeq(chatHistory, 1, 2)

\* The node run after the k-th node of this invocation, END included.
Following(k) == IF k < Len(visited) THEN visited[k + 1].name ELSE node
Failing == {"embedQuery", "retrieveDocuments", "generateResponse"}

\* C27: every invocation of the graph runs composeSearch, then embedQuery; it
\* runs no node twice and, until it is at END, it has a node to run; when the
\* state carries an error after embedQuery, retrieveDocuments or
\* generateResponse the next node is handleError and then END, otherwise the
\* order is embedQuery, retrieveDocuments, generateResponse, END; and after an
\* error at embedQuery or retrieveDocuments, generateResponse is never run.
C27_GraphRoute ==
    /\ Len(visited) >= 1 => visited[1].name = "composeSearch"
    /\ Len(visited) >= 2 => visited[2].name = "embedQuery"
    /\ \A j, k \in 1..Len(visited) : visited[j].name = visited[k].name => j = k
    /\ mpc = "running" =>
         IF Len(visited) = 0 THEN node = "composeSearch" ELSE node = Following(Len(visited))
    /\ mpc = "running" /\ node # "END" =>
         ENABLED (ComposeSearch \/ GenerateQueryEmbeddings \/ RetrieveDocuments
                  \/ GenerateResponse \/ HandleError)
    /\ \A k \in 1..Len(visited) :
         mpc = "running" \/ k < Len(visited) =>
           /\ visited[k].name \in Failing /\ visited[k].error =>
                Following(k) = "handleError"
           /\ visited[k].name = "handleError" => Following(k) = "END"
           /\ visited[k].name = "embedQuery" /\ ~visited[k].error =>
                Following(k) = "retrieveDocuments"
           /\ visited[k].name = "retrieveDocuments" /\ ~visited[k].error =>
                Following(k) = "generateResponse"
           /\ visited[k].name = "generateResponse" /\ ~visited[k].error =>
                Following(k) = "END"
    /\ \A k \in 1..Len(visited) :
         visited[k].name \in {"embedQuery", "retrieveDocuments"} /\ visited[k].error =>
           \A j \in 1..Len(visited) : visited[j].name # "generateResponse"

\* An invocation that failed at retrieveDocuments and ended through handleError.
C27_Witness ==
    /\ mpc = "running"
    /\ node = "END"
    /\ Len(visited) = 4
    /\ visited[3] = [name |-> "retrieveDocuments", error |-> TRUE]
    /\ visited[4].name = "handleError"

\* An invocation that ended without an error.
C27_WitnessStraight ==
    /\ mpc = "running"
    /\ node = "END"
    /\ Len(visited) = 4
    /\ visited[4] = [name |-> "generateResponse", error |-> FALSE]

\* C28: a worker that scanned to the end without a fault has submitted the
\* records still pending in its batch in one last bulk insert by the time it
\* has a result; and if none of its bulk inserts failed, every record it pushed
\* onto a batch is in the target by then.
C28_FinalFlush ==
    \A w \in Workers :
        result[w].status = "ok" =>
            /\ batchDocuments[w] # <<>> =>
                  /\ insertLog[w] # <<>>
                  /\ Last(insertLog[w]).ids = Ids(batchDocuments[w])
            /\ AllOk(insertLog[w]) =>
                  \A id \in Range(handed[w]) : FindOne(target, id)

\* A worker that wrote one full batch inside the loop and the rest at the end.
C28_Witness ==
    \E w \in Workers :
        /\ result[w].status = "ok"
        /\ Len(insertLog[w]) = 2
        /\ AllOk(insertLog[w])
        /\ Len(insertLog[w][1].ids) = BATCH_SIZE
        /\ Len(insertLog[w][2].ids) = 1
        /\ Len(handed[w]) = BATCH_SIZE + 1

\* The worker is inside generateEmbeddingWithRetry, a findOne or an insertMany.
Stalled(w) == pc[w] \in {"lookup", "embed", "backoff", "insert"}
Launched(v) == v \in {forked[k].workerId : k \in 1..Len(forked)}

\* C29: while a worker is held in its embedding retries and waits, in a lookup
\* or in a bulk insert, every other worker that was launched and has not ended
\* can take its own next step: start, scan, look up, embed, insert, flush,
\* report.
C29_NoBlocking ==
    \A w \in Workers :
        Stalled(w) =>
            \A v \in Workers \ {w} :
                (Launched(v) /\ pc[v] # "exited") => ENABLED WorkerStep(v)

\* One worker waits between two embedding attempts; meanwhile the other one
\* has scanned to the end, written its record and reported its count.
C29_Witness ==
    \E w, v \in Workers :
        /\ w < v
        /\ pc[w] = "backoff"
        /\ pc[v] = "exited"
        /\ result[v] = [status |-> "ok", count |-> 1]
        /\ insertLog[v] # <<>>
        /\ v \in Range(received)

\* C30: no step of a worker or of the coordinator changes the source
\* collection, and a step changes the target only by adding entries, each one
\* an enriched record of a source record: every entry the target held before
\* the step is still there, as many times, after it.
C30_Frame ==
    [][/\ source' = source
       /\ target \sqsubseteq target'
       /\ \A e \in BagToSet(target' (-) target) :
            /\ DOMAIN e = {"metadata", "embeddings"}
            /\ \E i \in 1..Len(source) : e.metadata._id = source[i]._id]_vars

\* The target after two bulk inserts of the same worker, the second one onto
\* the entries of the first, with the coordinator gone.
C30_Witness ==
    /\ cpc = "exited"
    /\ BagCardinality(target) = BATCH_SIZE + 1
    /\ \E w \in Workers : Len(insertLog[w]) = 2 /\ insertLog[w][2].ok

\* C31: a step in which a worker's scan moves onto an index that fails the
\* ownership test changes nothing else of that worker: it stays in its scan
\* loop, its processed count and its batch are what they were, no lookup was
\* made and no embedding was asked for, and the target is untouched.
C31_NonOwnedSkipped ==
    [][\A w \in Workers :
         (/\ currentIndex'[w] = currentIndex[w] + 1
          /\ (currentIndex'[w] - 1) % totalWorkers # w - 1) =>
            /\ pc'[w] = "scan"
            /\ propertiesProcessed'[w] = propertiesProcessed[w]
            /\ batchDocuments'[w] = batchDocuments[w]
            /\ presentAtLookup'[w] = presentAtLookup[w]
            /\ reportedAbsent'[w] = reportedAbsent[w]
            /\ events'[w] = <<>>
            /\ embedded'[w] = embedded[w]
            /\ handed'[w] = handed[w]
            /\ insertLog'[w] = insertLog[w]
            /\ target' = target]_vars

\* The second of two workers has scanned the first record, which is not its
\* own, and is about to scan the next.
C31_Witness ==
    /\ totalWorkers = 2
    /\ Len(source) = 2
    /\ currentIndex[2] = 1
    /\ pc[2] = "scan"
    /\ propertiesProcessed[2] = 0
    /\ LookedUp(2) = {}

\* C32: (Go) a worker that has its result can always send it, the results
\* channel is closed only when every worker has sent and called wg.Done, no
\* worker is received twice, the program has a next step until main has
\* returned, and when main has returned after the workers were started it has
\* received exactly one result of each worker, errors and counts alike.
C32_ResultCollection ==
    lang = "go" =>
        /\ \A w \in Workers : pc[w] \in {"done", "failed"} => ENABLED Send(w)
        /\ closed => \A w \in Workers : pc[w] = "exited"
        /\ Cardinality(Range(received)) = Len(received)
        /\ Len(received) + Len(results) <= totalWorkers
        /\ cpc # "exited" => ENABLED RunNext
        /\ (cpc = "exited" /\ exitCode = "0") =>
              /\ Len(received) = totalWorkers
              /\ Range(received) = Workers
              /\ results = <<>>
              /\ closed

\* Two goroutines, one returned an error and one a count; main has received
\* both results and has returned.
C32_Witness ==
    /\ lang = "go"
    /\ totalWorkers = 2
    /\ cpc = "exited"
    /\ exitCode = "0"
    /\ Len(received) = 2
    /\ \E w, v \in Workers : result[w].status = "error" /\ result[v].status = "ok"

\* C33: (TypeScript) a worker that aborted on a fault of its scan, its lookup
\* or its index creation has submitted, in some bulk insert, every record that
\* was in its pending batch.
C33_PendingNotLost ==
    \A w \in Workers :
        (lang = "ts" /\ result[w].status = "error") =>
            \A id \in Range(Ids(batchDocuments[w])) : id \in Submitted(w)

\* The invocation has come to END, or its answer was just given to main.
AtEnd == (mpc = "running" /\ node = "END") \/ (mpc = "ask" /\ Answered >= 1)
ErrorRecorded == \E k \in 1..Len(visited) : visited[k].error

\* C34: whatever the query, the history and the outcomes of the rewriting,
\* embedding, search and chat calls, an invocation of runRagAgent always has a
\* next step until it returns, what it returns is a non-empty text, and when a
\* node recorded an error it is the error message handleError built from the
\* error the state carries.
C34_Total ==
    /\ mpc = "running" =>
         ENABLED (ComposeSearch \/ GenerateQueryEmbeddings \/ RetrieveDocuments
                  \/ GenerateResponse \/ HandleError \/ Answer)
    /\ AtEnd =>
         /\ Response(state) # <<>>
         /\ ErrorRecorded =>
               /\ state.error.defined
               /\ Response(state) = ErrorMessage(state)
    /\ (mpc = "ask" /\ Answered >= 1) =>
         Last(chatHistory) = Assistant(Response(state))

\* The chat model failed after a successful search, and main was given the
\* error message for it.
C34_Witness ==
    /\ mpc = "ask"
    /\ Len(visited) = 5
    /\ visited[4] = [name |-> "generateResponse", error |-> TRUE]
    /\ state.error = Def(<<"Failed to generate a response">>)
    /\ Last(chatHistory).content = ErrorMessage(state)

\* C35: inside an invocation the chat history that generateResponse reads from
\* the state, and passes on to the chat model, is the history the caller gave
\* to runRagAgent, each message once and in order; and the chat history of
\* the final state is the caller's history followed by one user message and one
\* assistant message.
C35_HistoryNotDuplicated ==
    mpc = "running" =>
        LET given == Last(passed).chatHistory
        IN /\ node = "generateResponse" => state.chatHistory = given
           /\ node = "END" =>
                /\ Len(state.chatHistory) = Len(given) + 2
                /\ SubSeq(state.chatHistory, 1, Len(given)) = given
                /\ state.chatHistory[Len(given) + 1].role = "user"
                /\ state.chatHistory[Len(given) + 2].role = "assistant"

\* The same, for the history generateResponse reads only.
C35_ReadByGenerate ==
    (mpc = "running" /\ node = "generateResponse") =>
        state.chatHistory = Last(passed).chatHistory

Names(route) == [k \in 1..Len(route) |-> route[k].name]
ErrorRoute == <<"composeSearch", "embedQuery", "handleError", "END">>

\* C36: an invocation in which composeSearch failed runs embedQuery, then
\* handleError, then ends: neither retrieveDocuments nor generateResponse runs,
\* the state carries an error to the end, and the response is the error message
\* built by handleError.
C36_ComposeErrorKept ==
    (Len(visited) >= 1 /\ visited[1].error) =>
        /\ Len(visited) <= 3
        /\ Names(visited) = SubSeq(ErrorRoute, 1, Len(visited))
        /\ mpc = "running" => node = ErrorRoute[Len(visited) + 1]
        /\ state.error.defined
        /\ AtEnd =>
             /\ Len(visited) = 3
             /\ Response(state) = ErrorMessage(state)

\* composeSearch failed, embedQuery succeeded, handleError ran, the run is over.
C36_Witness ==
    /\ mpc = "running"
    /\ node = "END"
    /\ visited[1].error
    /\ state.queryEmbeddings.defined
    /\ Names(visited) = <<"composeSearch", "embedQuery", "handleError">>
    /\ state.response = Def(ErrorMessage(state))

FailedConnect == Call("initialize", "throws", TRUE)

\* C37: after an initializeMongoDB that failed because the connection attempt
\* threw, the service holds no client; the next getPropertyCollection or
\* vectorSearch throws 'MongoDB not initialized', and the next
\* initializeMongoDB makes a connection attempt of its own.
C37_FailedConnect ==
    \A i \in 1..Len(calls) :
        calls[i] = FailedConnect =>
            IF i = Len(calls)
            THEN ~client.defined
            ELSE /\ calls[i + 1].op \in {"getPropertyCollection", "vectorSearch"} =>
                       calls[i + 1].result = "not initialized"
                 /\ calls[i + 1].op = "initialize" => calls[i + 1].attempt

\* After the first k calls: some initializeMongoDB has succeeded and no
\* closeMongoDBConnection came after it.
Initialized(k) ==
    \E i \in 1..k :
        /\ calls[i].op = "initialize"
        /\ calls[i].result = "ok"
        /\ \A j \in (i + 1)..k : calls[j].op # "close"

\* C38: over any sequence of calls of the service at most one client exists
\* at a time, an initializeMongoDB on an initialized service succeeds without a
\* new connection, getPropertyCollection succeeds exactly when the service is
\* initialized, that is between a successful initializeMongoDB and the next
\* closeMongoDBConnection, and closeMongoDBConnection never throws.
C38_Lifecycle ==
    /\ Cardinality(live) <= 1
    /\ \A k \in 1..Len(calls) :
         /\ (calls[k].op = "initialize" /\ Initialized(k - 1)) =>
               calls[k].result = "ok" /\ ~calls[k].attempt
         /\ calls[k].op = "getPropertyCollection" =>
               (calls[k].result = "ok" <=> Initialized(k - 1))
         /\ calls[k].op = "close" => calls[k].result = "ok"

=============================================================================
